---- MODULE Spec2Model ----
(***************************************************************************)
(* A model of the spectre expression language: the tokenizer               *)
(* (src/lexer.rs), the recursive-descent parser (src/parser.rs), the       *)
(* front-end pipeline (src/main.rs, src/repl.rs) and the tree-walking      *)
(* interpreter with its chained environments (src/interpreter.rs).         *)
(*                                                                         *)
(* Three specifications share the definitions:                             *)
(*   Spec       the interpreter as a step machine over Terms given to      *)
(*              Interpreter::interpret, one step per recursive invocation  *)
(*              or return;                                                 *)
(*   FrontSpec  tokenize, parse, and the tokenize -> filter -> parse       *)
(*              pipeline of the front ends, applied to source texts;       *)
(*   ArithSpec  apply_binary_op and apply_unary_op applied to integers.    *)
(*                                                                         *)
(* The arithmetic of i64 is modelled at the reduced width IntBits (two's    *)
(* complement); the tokenizer parses integer literals at the true width.   *)
(* f64 is an exact rational whose numerator and denominator stay below     *)
(* FloatCap, with every other magnitude lumped into a class (big, tiny,    *)
(* other).                                                                 *)
(***************************************************************************)
EXTENDS Integers, Sequences, FiniteSets, TLC

VARIABLES build, prog, env, stack, ctrl, status, result,
          src, tokens, parsed, mainOut,
          aIn, aOut,
          history, submitted

vars == <<build, prog, env, stack, ctrl, status, result,
          src, tokens, parsed, mainOut, aIn, aOut, history, submitted>>

interpVars == <<prog, env, stack, ctrl, status, result>>

frontVars == <<src, tokens, parsed, mainOut>>

arithVars == <<aIn, aOut>>

\* the history of the interactive loop, and the lines submitted to it
replVars == <<history, submitted>>

(***************************************************************************)
(* Bounds of the model.                                                    *)
(***************************************************************************)
\* width of the modelled i64
IntBits == 6

\* numerators and denominators of modelled f64 values stay below this
FloatCap == 4096

\* host call stack: nested invocations of interpret before exhaustion
StackLimit == 5

\* syntax rules an environment may hold before SyntaxDefinition is withheld
MaxRules == 2

\* length of the exhaustively enumerated source texts
MaxSrcLen == 3

(***************************************************************************)
(* Outcomes: a returned Result (Ok / Err) or a panic of the process.       *)
(***************************************************************************)
Ok(v) == [kind |-> "Ok", val |-> v]

Err(e) == [kind |-> "Err", err |-> e]

Panic(m) == [kind |-> "Panic", msg |-> m]

NoOutcome == [kind |-> "None"]

\* no Term was given to interpret yet
NoTerm == [term |-> "None"]

(***************************************************************************)
(* Value (interpreter.rs) and Term (ast.rs).                               *)
(***************************************************************************)
VInteger(n) == [tag |-> "Integer", n |-> n]

VFloat(f) == [tag |-> "Float", f |-> f]

VFunction(params, body) == [tag |-> "Function", params |-> params, body |-> body]

VBuiltin(name) == [tag |-> "Builtin", bname |-> name]

VUnit == [tag |-> "Unit"]

TIdentifier(name) == [term |-> "Identifier", name |-> name]

TInteger(n) == [term |-> "Integer", n |-> n]

TFloat(f) == [term |-> "Float", f |-> f]

TFunction(name, params, body) ==
    [term |-> "Function", name |-> name, params |-> params, body |-> body]

TFunctionCall(name, args) == [term |-> "FunctionCall", name |-> name, args |-> args]

TBinaryOp(op, left, right) == [term |-> "BinaryOp", op |-> op, left |-> left, right |-> right]

TUnaryOp(op, operand) == [term |-> "UnaryOp", op |-> op, operand |-> operand]

TSyntaxDefinition(name, pattern, precedence, scope) ==
    [term |-> "SyntaxDefinition", name |-> name, pattern |-> pattern,
     precedence |-> precedence, scope |-> scope]

BinaryOperator == {"Plus", "Minus", "Times", "Div", "Pow"}

(***************************************************************************)
(* i64 at width IntBits.                                                   *)
(***************************************************************************)
MinInt == -(2 ^ (IntBits - 1))

MaxInt == 2 ^ (IntBits - 1) - 1

InRange(n) == MinInt <= n /\ n <= MaxInt

Wrap(n) == ((n - MinInt) % (2 ^ IntBits)) + MinInt

Abs(n) == IF n < 0 THEN -n ELSE n

\* Rust's integer division truncates toward zero
TruncDiv(l, r) ==
    IF (l < 0) = (r < 0) THEN Abs(l) \div Abs(r) ELSE -(Abs(l) \div Abs(r))

\* +, -, *, unary - and pow on i64: an out-of-range result panics when the
\* build checks overflow (debug profile) and wraps otherwise (release)
Checked(raw, overflowed, what) ==
    IF overflowed
    THEN IF build = "debug" THEN Panic(what) ELSE Ok(VInteger(Wrap(raw)))
    ELSE Ok(VInteger(raw))

\* i64::pow: r multiplications by l, starting from v; the wrapped product
\* and whether any product left the range
RECURSIVE IntPowFrom(_, _, _, _)
\* one multiplication: acc is the product and the overflow flag so far
IntPowStep(l, r, acc) ==
    IF r = 0 THEN acc
    ELSE IntPowFrom(l, r - 1, Wrap(l * acc.v), acc.of \/ ~InRange(l * acc.v))

IntPowFrom(l, r, v, of) ==
    CHOOSE p \in {IntPowStep(l, r, acc) : acc \in {[v |-> v, of |-> of]}} : TRUE

IntPow(l, r) == IntPowFrom(l, r, 1, FALSE)

\* the capacity of the history of the interactive loop (HISTORY_SIZE of
\* repl.rs is 100; the model keeps fewer entries)
HISTORY_SIZE == 3

\* the number of lines submitted to the interactive loop
MaxSubmitted == 5

\* the largest exponent evaluated with the exact integer power
PowIntLimit == 20

(***************************************************************************)
(* f64 as an exact rational n/d in lowest terms (cls = "fin"), or a class  *)
(* of values outside the modelled range: "big" (magnitude beyond FloatCap, *)
(* including the infinities), "tiny" (non-zero, denominator beyond         *)
(* FloatCap) and "other" (anything else, including NaN).                   *)
(***************************************************************************)
RECURSIVE Gcd(_, _)
Gcd(a, b) == IF b = 0 THEN a ELSE Gcd(b, a % b)

FClass(c) == [cls |-> c, n |-> 0, d |-> 0]

FNorm(n0, d0) ==
    LET n1 == IF d0 < 0 THEN -n0 ELSE n0
        d1 == Abs(d0)
        g  == Gcd(Abs(n1), d1)
        n  == n1 \div g
        d  == d1 \div g
    IN  IF Abs(n) < FloatCap /\ d < FloatCap THEN [cls |-> "fin", n |-> n, d |-> d]
        ELSE IF d < FloatCap THEN FClass("big")
        ELSE IF Abs(n) < FloatCap THEN FClass("tiny")
        ELSE FClass("other")

\* `l as f64`
FromInt(l) == [cls |-> "fin", n |-> l, d |-> 1]

FIsFin(a) == a.cls = "fin"

\* `r == 0.0`
FIsZero(a) == a.cls = "fin" /\ a.n = 0

FAdd(a, b) ==
    IF FIsFin(a) /\ FIsFin(b) THEN FNorm(a.n * b.d + b.n * a.d, a.d * b.d)
    ELSE FClass("other")

FSub(a, b) ==
    IF FIsFin(a) /\ FIsFin(b) THEN FNorm(a.n * b.d - b.n * a.d, a.d * b.d)
    ELSE FClass("other")

FMul(a, b) ==
    IF FIsFin(a) /\ FIsFin(b) THEN FNorm(a.n * b.n, a.d * b.d)
    ELSE FClass("other")

\* l / r for r # 0.0
FDiv(a, b) ==
    IF FIsFin(a) /\ FIsFin(b) THEN FNorm(a.n * b.d, a.d * b.n)
    ELSE FClass("other")

FNeg(a) == IF FIsFin(a) THEN [cls |-> "fin", n |-> -a.n, d |-> a.d] ELSE a

\* k multiplications by a, starting from p
RECURSIVE FPowFrom(_, _, _)
\* one multiplication: q is the product so far
FPowStep(a, k, q) ==
    IF k = 0 \/ ~FIsFin(q) THEN q ELSE FPowFrom(a, k - 1, FMul(a, q))

FPowFrom(a, k, p) == CHOOSE r \in {FPowStep(a, k, q) : q \in {p}} : TRUE

FPowNat(a, k) == FPowFrom(a, k, FromInt(1))

\* f64::powf, exact for integral exponents
FPow(a, b) ==
    IF FIsFin(a) /\ FIsFin(b) /\ b.d = 1
    THEN IF b.n >= 0 THEN FPowNat(a, b.n)
         ELSE IF a.n = 0 THEN FClass("big")
         ELSE FPowNat(FNorm(a.d, a.n), -b.n)
    ELSE FClass("other")

(***************************************************************************)
(* Error strings, as the fields the format! calls put into them.           *)
(***************************************************************************)
EMsg(m) == [msg |-> m]

ENamed(m, name) == [msg |-> m, name |-> name]

\* EArity with the two counts exchanged
EArity_Swapped(name, expected, got) ==
    [msg |-> "Arity mismatch", name |-> name, expected |-> got, got |-> expected]

EArity(name, expected, got) ==
    [msg |-> "Arity mismatch", name |-> name, expected |-> expected, got |-> got]

(***************************************************************************)
(* Interpreter::apply_binary_op and Interpreter::apply_unary_op.           *)
(***************************************************************************)
IntBinaryOp(op, l, r) ==
    CASE op = "Plus"  -> Checked(l + r, ~InRange(l + r), "attempt to add with overflow")
      [] op = "Minus" -> Checked(l - r, ~InRange(l - r), "attempt to subtract with overflow")
      [] op = "Times" -> Checked(l * r, ~InRange(l * r), "attempt to multiply with overflow")
      [] op = "Div"   ->
            IF r = 0 THEN Err(EMsg("Division by zero"))
            ELSE IF l = MinInt /\ r = -1 THEN Panic("attempt to divide with overflow")
            ELSE Ok(VInteger(TruncDiv(l, r)))
      [] op = "Pow"   ->
            IF r < 0 THEN Ok(VFloat(FPow(FromInt(l), FromInt(r))))
            ELSE IF r > PowIntLimit THEN Ok(VFloat(FPow(FromInt(l), FromInt(r))))
            ELSE LET p == IntPow(l, r)
                 IN  Checked(p.v, p.of, "attempt to multiply with overflow")

FloatBinaryOp(op, l, r) ==
    CASE op = "Plus"  -> Ok(VFloat(FAdd(l, r)))
      [] op = "Minus" -> Ok(VFloat(FSub(l, r)))
      [] op = "Times" -> Ok(VFloat(FMul(l, r)))
      [] op = "Div"   ->
            IF FIsZero(r) THEN Err(EMsg("Division by zero"))
            ELSE Ok(VFloat(FDiv(l, r)))
      [] op = "Pow"   -> Ok(VFloat(FPow(l, r)))

\* apply_binary_op without the two arms for mixed operands
apply_binary_op_NoPromotion(op, left, right) ==
    CASE left.tag = "Integer" /\ right.tag = "Integer" -> IntBinaryOp(op, left.n, right.n)
      [] left.tag = "Float" /\ right.tag = "Float"     -> FloatBinaryOp(op, left.f, right.f)
      [] OTHER -> Err(EMsg("Invalid types for binary operation"))

apply_binary_op(op, left, right) ==
    CASE left.tag = "Integer" /\ right.tag = "Integer" -> IntBinaryOp(op, left.n, right.n)
      [] left.tag = "Float" /\ right.tag = "Float"     -> FloatBinaryOp(op, left.f, right.f)
      [] left.tag = "Integer" /\ right.tag = "Float"   -> FloatBinaryOp(op, FromInt(left.n), right.f)
      [] left.tag = "Float" /\ right.tag = "Integer"   -> FloatBinaryOp(op, left.f, FromInt(right.n))
      [] OTHER -> Err(EMsg("Invalid types for binary operation"))

apply_unary_op(op, val) ==
    CASE val.tag = "Integer" -> Checked(-val.n, ~InRange(-val.n), "attempt to negate with overflow")
      [] val.tag = "Float"   -> Ok(VFloat(FNeg(val.f)))
      [] OTHER -> Err(EMsg("Invalid type for negation"))

(***************************************************************************)
(* ArithSpec: the arithmetic of the interpreter applied to integers.       *)
(***************************************************************************)
IntDomain == MinInt .. MaxInt

NoInput == [form |-> "None"]

BinaryInput(op, l, r) == [form |-> "Binary", op |-> op, l |-> l, r |-> r]

UnaryInput(n) == [form |-> "Unary", op |-> "Neg", l |-> n, r |-> 0]

ArithInputs ==
    {BinaryInput(op, l, r) : <<op, l, r>> \in BinaryOperator \X IntDomain \X IntDomain}
        \cup {UnaryInput(n) : n \in IntDomain}

\* integers paired with floats
IntSample == {MinInt, -1, 0, 1, 2, PowIntLimit + 1, MaxInt}

FloatDomain ==
    {FNorm(n, d) : <<n, d>> \in {-5, -1, 0, 1, 5, 7} \X {1, 2}}
        \cup {FClass("big"), FClass("other")}

ValueInput(op, left, right) == [form |-> "Values", op |-> op, left |-> left, right |-> right]

\* the pairs of numeric operands of which at least one is a Float
ValueInputs ==
    LET ints   == {VInteger(n) : n \in IntSample}
        floats == {VFloat(f) : f \in FloatDomain}
        pairs  == (ints \X floats) \cup (floats \X ints) \cup (floats \X floats)
    IN  {ValueInput(op, p[1], p[2]) : op \in BinaryOperator, p \in pairs}

ApplyValues ==
    /\ aIn.form = "Values"
    /\ aOut = NoOutcome
    /\ aOut' = apply_binary_op(aIn.op, aIn.left, aIn.right)
    /\ UNCHANGED <<aIn, build, interpVars, frontVars, replVars>>

ApplyBinary ==
    /\ aIn.form = "Binary"
    /\ aOut = NoOutcome
    /\ aOut' = apply_binary_op(aIn.op, VInteger(aIn.l), VInteger(aIn.r))
    /\ UNCHANGED <<aIn, build, interpVars, frontVars, replVars>>

ApplyUnary ==
    /\ aIn.form = "Unary"
    /\ aOut = NoOutcome
    /\ aOut' = apply_unary_op(aIn.op, VInteger(aIn.l))
    /\ UNCHANGED <<aIn, build, interpVars, frontVars, replVars>>

ArithInit ==
    /\ build \in {"debug", "release"}
    /\ prog = NoTerm /\ env = <<>> /\ stack = <<>> /\ ctrl = NoOutcome
    /\ status = "idle" /\ result = NoOutcome
    /\ src = <<>> /\ tokens = NoOutcome /\ parsed = NoOutcome /\ mainOut = NoOutcome
    /\ aIn \in ArithInputs \cup ValueInputs
    /\ aOut = NoOutcome
    /\ history = <<>> /\ submitted = <<>>

ArithNext == ApplyBinary \/ ApplyUnary \/ ApplyValues

ArithSpec == ArithInit /\ [][ArithNext]_vars

(***************************************************************************)
(* Token and tokenize (lexer.rs).  A source text is a sequence of          *)
(* characters, each a string of length one.                                *)
(***************************************************************************)
Tok(t) == [tok |-> t]

TokIdentifier(name) == [tok |-> "Identifier", name |-> name]

TokInteger(n) == [tok |-> "Integer", n |-> n]

TokFloat(f) == [tok |-> "Float", f |-> f]

TokUnknown(c) == [tok |-> "Unknown", ch |-> c]

DigitChars == <<"0", "1", "2", "3", "4", "5", "6", "7", "8", "9">>

AsciiDigits == {DigitChars[i] : i \in 1..10}

DigitVal(c) == (CHOOSE i \in 1..10 : DigitChars[i] = c) - 1

AsciiLetters ==
    {"a", "b", "c", "d", "e", "f", "g", "h", "i", "j", "k", "l", "m",
     "n", "o", "p", "q", "r", "s", "t", "u", "v", "w", "x", "y", "z",
     "A", "B", "C", "D", "E", "F", "G", "H", "I", "J", "K", "L", "M",
     "N", "O", "P", "Q", "R", "S", "T", "U", "V", "W", "X", "Y", "Z"}

WhitespaceChars == {" ", "\t", "\n", "\r"}

SingleCharToken(c) ==
    CASE c = "(" -> Tok("LParen")
      [] c = ")" -> Tok("RParen")
      [] c = "[" -> Tok("LBracket")
      [] c = "]" -> Tok("RBracket")
      [] c = "{" -> Tok("LCurly")
      [] c = "}" -> Tok("RCurly")
      [] c = "," -> Tok("Comma")
      [] c = "+" -> Tok("Plus")
      [] c = "-" -> Tok("Minus")
      [] c = "*" -> Tok("Times")
      [] c = "/" -> Tok("Div")
      [] c = "^" -> Tok("Pow")

SingleChars == {"(", ")", "[", "]", "{", "}", ",", "+", "-", "*", "/", "^"}

\* the end of the maximal run of characters of the set cs that starts at i
RECURSIVE RunEnd(_, _, _)
RunEnd(input, i, cs) ==
    IF i < Len(input) /\ input[i + 1] \in cs THEN RunEnd(input, i + 1, cs) ELSE i

\* the decimal digits of i64::MAX
I64MaxDigits ==
    <<"9", "2", "2", "3", "3", "7", "2", "0", "3", "6",
      "8", "5", "4", "7", "7", "5", "8", "0", "7">>

RECURSIVE StripZeros(_)
StripZeros(num) ==
    IF num # <<>> /\ Head(num) = "0" THEN StripZeros(Tail(num)) ELSE num

\* a and b have the same length; a is the larger number
RECURSIVE DigitsGreater(_, _)
DigitsGreater(a, b) ==
    IF a = <<>> THEN FALSE
    ELSE IF Head(a) # Head(b) THEN DigitVal(Head(a)) > DigitVal(Head(b))
    ELSE DigitsGreater(Tail(a), Tail(b))

ExceedsI64(num) ==
    \/ Len(StripZeros(num)) > Len(I64MaxDigits)
    \/ /\ Len(StripZeros(num)) = Len(I64MaxDigits)
       /\ DigitsGreater(StripZeros(num), I64MaxDigits)

\* the number written by the digits num, after the number acc
RECURSIVE NatValue(_, _)
NatValue(num, acc) ==
    IF num = <<>> THEN acc ELSE NatValue(Tail(num), acc * 10 + DigitVal(Head(num)))

\* str::parse::<i64> on a run of digits: the value, or an error when it
\* exceeds i64::MAX
ParseInt(num) ==
    IF ExceedsI64(num) THEN Err("number too large to fit in target type")
    ELSE Ok(NatValue(num, 0))

\* the digits of num as a natural number, capped at FloatCap
RECURSIVE DigitsValue(_)
DigitsValue(num) ==
    IF num = <<>> THEN 0
    ELSE LET init == DigitsValue(SubSeq(num, 1, Len(num) - 1))
             v    == IF num[Len(num)] = "." THEN init
                     ELSE init * 10 + DigitVal(num[Len(num)])
         IN  IF v > FloatCap THEN FloatCap ELSE v

\* str::parse::<f64> on a run of digits and dots: exactly one dot and at
\* least one digit, else an error
ParseFloat(num) ==
    LET dots   == {i \in 1..Len(num) : num[i] = "."}
        dot    == CHOOSE i \in dots : TRUE
        ndigit == Len(num) - Cardinality(dots)
    IN  IF Cardinality(dots) > 1 \/ ndigit = 0 THEN Err("invalid float literal")
        ELSE IF dots = {} THEN Ok(FNorm(DigitsValue(num), 1))
        ELSE IF Len(num) - dot > 3 \/ DigitsValue(num) >= FloatCap THEN Ok(FClass("other"))
        ELSE Ok(FNorm(DigitsValue(num), 10 ^ (Len(num) - dot)))

RECURSIVE Concat(_)
Concat(cs) == IF cs = <<>> THEN "" ELSE Head(cs) \o Concat(Tail(cs))

\* tokenize from position i on: the tokens, or the panic of an unwrap
RECURSIVE TokenizeFrom(_, _)
TokenizeFrom(input, i) ==
    IF i > Len(input) THEN Ok(<<>>)
    ELSE
      LET c == input[i]
          j == IF c \in AsciiDigits \cup {"."} THEN RunEnd(input, i, AsciiDigits \cup {"."})
               ELSE IF c \in AsciiLetters \cup {"_"}
                    THEN RunEnd(input, i, AsciiLetters \cup AsciiDigits \cup {"_"})
                    ELSE i
          text == SubSeq(input, i, j)
          isFloat == \E k \in i..j : input[k] = "."
          num  == IF isFloat THEN ParseFloat(text) ELSE ParseInt(text)
          first ==
            CASE c \in SingleChars -> Ok(SingleCharToken(c))
              [] c \in AsciiDigits \cup {"."} ->
                    IF num.kind # "Ok"
                    THEN Panic("called Result::unwrap on an Err value")
                    ELSE IF isFloat THEN Ok(TokFloat(num.val)) ELSE Ok(TokInteger(num.val))
              [] c \in AsciiLetters \cup {"_"} -> Ok(TokIdentifier(Concat(text)))
              [] c \in WhitespaceChars -> Ok(Tok("Whitespace"))
              [] OTHER -> Ok(TokUnknown(c))
          rest == TokenizeFrom(input, j + 1)
      IN  IF first.kind # "Ok" THEN first
          ELSE IF rest.kind # "Ok" THEN rest
          ELSE Ok(<<first.val>> \o rest.val)

tokenize(input) == TokenizeFrom(input, 1)

(***************************************************************************)
(* The parser (parser.rs).  An IResult is POk(rest, term) or               *)
(* PErr(at, code): nom::Err::Error(Error::new(at, code)), where at is the  *)
(* suffix of the token sequence at which the error was raised.             *)
(***************************************************************************)
POk(rest, t) == [kind |-> "Ok", rest |-> rest, term |-> t]

PErr(at, code) == [kind |-> "Err", at |-> at, code |-> code]

IsTok(toks, t) == toks # <<>> /\ Head(toks).tok = t

RECURSIVE skip_whitespace(_)
skip_whitespace(toks) ==
    IF IsTok(toks, "Whitespace") THEN skip_whitespace(Tail(toks)) ELSE toks

RECURSIVE parse_add_sub(_), AddSubLoop(_, _), AddSubRight(_, _, _),
          parse_mul_div(_), MulDivLoop(_, _), MulDivRight(_, _, _),
          parse_unary(_), parse_pow(_), parse_primary(_), parse_function_call(_),
          ArgsLoop(_, _, _), ArgsNext(_, _, _)

parse_expression(toks) == parse_add_sub(toks)

parse(toks) == parse_expression(toks)

\* AddSubLoop that parses all that follows the operator as the right operand
AddSubLoop_RightRecursive(rest, left) ==
    IF rest = <<>> THEN POk(rest, left)
    ELSE IF Head(rest).tok \in {"Plus", "Minus"}
         THEN LET r == parse_add_sub(Tail(rest))
              IN  IF r.kind # "Ok" THEN r
                  ELSE POk(r.rest, TBinaryOp(Head(rest).tok, left, r.term))
         ELSE IF Head(rest).tok = "Whitespace" THEN AddSubLoop(Tail(rest), left)
         ELSE POk(rest, left)

\* the while loop of parse_add_sub
AddSubLoop(rest, left) ==
    IF rest = <<>> THEN POk(rest, left)
    ELSE IF Head(rest).tok \in {"Plus", "Minus"}
         THEN AddSubRight(Head(rest).tok, left, parse_mul_div(Tail(rest)))
         ELSE IF Head(rest).tok = "Whitespace" THEN AddSubLoop(Tail(rest), left)
         ELSE POk(rest, left)

\* the loop body after the right operand r: the ? on r, then the new left
AddSubRight(op, left, r) ==
    IF r.kind # "Ok" THEN r ELSE AddSubLoop(r.rest, TBinaryOp(op, left, r.term))

\* parse_add_sub after its first operand
AddSubFirst(first) ==
    IF first.kind # "Ok" THEN first ELSE AddSubLoop(first.rest, first.term)

parse_add_sub(toks) == AddSubFirst(parse_mul_div(toks))

\* the while loop of parse_mul_div
MulDivLoop(rest, left) ==
    IF rest = <<>> THEN POk(rest, left)
    ELSE IF Head(rest).tok \in {"Times", "Div"}
         THEN MulDivRight(Head(rest).tok, left, parse_pow(Tail(rest)))
         ELSE IF Head(rest).tok = "Whitespace" THEN MulDivLoop(Tail(rest), left)
         ELSE POk(rest, left)

\* the loop body after the right operand r: the ? on r, then the new left
MulDivRight(op, left, r) ==
    IF r.kind # "Ok" THEN r ELSE MulDivLoop(r.rest, TBinaryOp(op, left, r.term))

\* parse_mul_div after its first operand
MulDivFirst(first) ==
    IF first.kind # "Ok" THEN first ELSE MulDivLoop(first.rest, first.term)

\* parse_mul_div that stops after its first operand
parse_mul_div_NoLoop(toks) == parse_unary(toks)

parse_mul_div(toks) == MulDivFirst(parse_unary(toks))

\* parse_unary after the operand r of its minus sign: the ? on r, then Neg
UnaryNegated(r) ==
    IF r.kind # "Ok" THEN r ELSE POk(r.rest, TUnaryOp("Neg", r.term))

\* parse_unary after skip_whitespace
UnaryAt(toks) ==
    IF toks = <<>> THEN PErr(toks, "Eof")
    ELSE IF Head(toks).tok = "Minus" THEN UnaryNegated(parse_pow(Tail(toks)))
    ELSE parse_pow(toks)

parse_unary(toks) == UnaryAt(skip_whitespace(toks))

\* parse_pow after the right operand r of ^
PowRight(left, r) ==
    IF r.kind # "Ok" THEN r ELSE POk(r.rest, TBinaryOp("Pow", left, r.term))

\* PowLeft whose right operand is a primary instead of parse_pow
PowLeft_PrimaryRight(l) ==
    IF l.kind # "Ok" THEN l
    ELSE IF IsTok(l.rest, "Pow") THEN PowRight(l.term, parse_primary(Tail(l.rest)))
    ELSE l

\* parse_pow after its left operand l
PowLeft(l) ==
    IF l.kind # "Ok" THEN l
    ELSE IF IsTok(l.rest, "Pow") THEN PowRight(l.term, parse_pow(Tail(l.rest)))
    ELSE l

parse_pow(toks) == PowLeft(parse_primary(toks))

\* ParenRest whose error is raised after the token found in place of `)`
ParenRest_AfterToken(rest, e) ==
    IF IsTok(rest, "RParen") THEN POk(Tail(rest), e.term)
    ELSE PErr(IF rest = <<>> THEN rest ELSE Tail(rest), "Char")

\* the closing parenthesis after the expression e
ParenRest(rest, e) ==
    IF IsTok(rest, "RParen") THEN POk(Tail(rest), e.term) ELSE PErr(rest, "Char")

ParenClose(e) ==
    IF e.kind # "Ok" THEN e ELSE ParenRest(skip_whitespace(e.rest), e)

\* parse_primary after the operand r of its minus sign: the ? on r, then Neg
PrimaryNegated(r) ==
    IF r.kind # "Ok" THEN r ELSE POk(r.rest, TUnaryOp("Neg", r.term))

\* parse_primary after skip_whitespace
PrimaryAt(toks) ==
    IF toks = <<>> THEN PErr(toks, "Eof")
    ELSE
      CASE Head(toks).tok = "Minus" -> PrimaryNegated(parse_primary(Tail(toks)))
        [] Head(toks).tok = "Integer" -> POk(Tail(toks), TInteger(Head(toks).n))
        [] Head(toks).tok = "Float" -> POk(Tail(toks), TFloat(Head(toks).f))
        [] Head(toks).tok = "Identifier" ->
              IF IsTok(Tail(toks), "LParen") THEN parse_function_call(toks)
              ELSE POk(Tail(toks), TIdentifier(Head(toks).name))
        [] Head(toks).tok = "LParen" -> ParenClose(parse_expression(Tail(toks)))
        [] OTHER -> PErr(toks, "Char")

parse_primary(toks) == PrimaryAt(skip_whitespace(toks))

\* the argument loop of parse_function_call
ArgsLoop(name, current, args) == ArgsNext(name, args, parse_expression(current))

\* the loop body after the argument: a comma or the closing parenthesis
ArgsSeparator(name, args, next) ==
    IF IsTok(next, "Comma") THEN ArgsLoop(name, skip_whitespace(Tail(next)), args)
    ELSE IF IsTok(next, "RParen") THEN POk(Tail(next), TFunctionCall(name, args))
    ELSE PErr(next, "Char")

\* the loop body after the argument a: the ? on a, then the push
ArgsNext(name, args, a) ==
    IF a.kind # "Ok" THEN a
    ELSE ArgsSeparator(name, Append(args, a.term), skip_whitespace(a.rest))

\* parse_function_call after the opening parenthesis and skip_whitespace
ArgsStart(name, current) ==
    IF IsTok(current, "RParen") THEN POk(Tail(current), TFunctionCall(name, <<>>))
    ELSE ArgsLoop(name, current, <<>>)

parse_function_call(toks) ==
    IF toks = <<>> THEN PErr(toks, "Eof")
    ELSE IF Head(toks).tok = "Identifier"
         THEN IF IsTok(Tail(toks), "LParen")
              THEN ArgsStart(Head(toks).name, skip_whitespace(Tail(Tail(toks))))
              ELSE PErr(Tail(toks), "Char")
         ELSE PErr(toks, "Char")

(***************************************************************************)
(* The front ends (main.rs, repl.rs): tokenize, drop the Whitespace        *)
(* tokens, parse, and hand the AST to the interpreter; the tokens that     *)
(* parse left over are dropped by the pattern Ok((_, ast)).                *)
(***************************************************************************)
FilterWhitespace(toks) == SelectSeq(toks, LAMBDA t : t.tok # "Whitespace")

FrontEndOutcome(text) ==
    LET lexed == tokenize(text)
    IN  IF lexed.kind # "Ok" THEN lexed
        ELSE LET p == parse(FilterWhitespace(lexed.val))
             IN  IF p.kind = "Ok"
                 THEN [kind |-> "Interpret", ast |-> p.term, dropped |-> p.rest]
                 ELSE [kind |-> "ParseError", at |-> p.at, code |-> p.code]

(***************************************************************************)
(* FrontSpec: the source texts and the operations applied to them.         *)
(***************************************************************************)
\* characters of the exhaustively enumerated texts
SrcChars == {"1", ".", "f", "+", "-", "*", "^", "(", ")", ",", " ", "@"}

ShortTexts == UNION {[1..n -> SrcChars] : n \in 0..MaxSrcLen}

\* operands: a primary expression and the AST it stands for
Operands ==
    { [text |-> <<"2">>, ast |-> TInteger(2)],
      [text |-> <<"x">>, ast |-> TIdentifier("x")],
      [text |-> <<"(", "1", "+", "2", ")">>,
       ast  |-> TBinaryOp("Plus", TInteger(1), TInteger(2))],
      [text |-> <<"f", "(", "1", ")">>, ast |-> TFunctionCall("f", <<TInteger(1)>>)] }

AddChars == {"+", "-"}

MulChars == {"*", "/"}

OpOfChar(c) ==
    CASE c = "+" -> "Plus" [] c = "-" -> "Minus" [] c = "*" -> "Times"
      [] c = "/" -> "Div" [] c = "^" -> "Pow"

\* a op1 b op2 c
Chain3(a, c1, b, c2, c) == a.text \o <<c1>> \o b.text \o <<c2>> \o c.text

\* (a op1 b) op2 c
Paren3(a, c1, b, c2, c) ==
    <<"(">> \o a.text \o <<c1>> \o b.text \o <<")">> \o <<c2>> \o c.text

PrecedenceTexts ==
    UNION { { Chain3(a, c1, b, c2, c), Chain3(a, c2, b, c1, c), Paren3(a, c1, b, c2, c) } :
            <<a, b, c, c1, c2>> \in Operands \X Operands \X Operands \X AddChars \X MulChars }

\* an operator of one level followed by an operand
ChainSteps(chars, operands) == {[c |-> c, o |-> o] : c \in chars, o \in operands}

\* first c1 o1 c2 o2 ... : a chain of operands joined by operators
RECURSIVE ChainText(_, _)
ChainText(first, steps) ==
    IF steps = <<>> THEN first.text
    ELSE ChainText([text |-> first.text \o <<steps[1].c>> \o steps[1].o.text], Tail(steps))

\* the chains of one level: three operands, and four of the shorter ones
LevelChains(chars) ==
    ([{1} -> Operands] \X [1..2 -> ChainSteps(chars, Operands)])
        \cup ([{1} -> {o \in Operands : Len(o.text) = 1}] \X
               [1..3 -> ChainSteps(chars, {o \in Operands : Len(o.text) = 1})])

AssociativityChains == LevelChains(AddChars) \cup LevelChains(MulChars)

AssociativityTexts == {ChainText(ch[1][1], ch[2]) : ch \in AssociativityChains}

\* the places where an operand may start: the text before and after it, and
\* the AST around the operand's own
Contexts ==
    { [name |-> "start", pre |-> <<>>, post |-> <<>>],
      [name |-> "Plus",  pre |-> <<"3", "+">>, post |-> <<>>],
      [name |-> "Minus", pre |-> <<"3", "-">>, post |-> <<>>],
      [name |-> "Times", pre |-> <<"3", "*">>, post |-> <<>>],
      [name |-> "Div",   pre |-> <<"3", "/">>, post |-> <<>>],
      [name |-> "Pow",   pre |-> <<"3", "^">>, post |-> <<>>],
      [name |-> "Neg",   pre |-> <<"-">>, post |-> <<>>],
      [name |-> "paren", pre |-> <<"(">>, post |-> <<")">>],
      [name |-> "arg",   pre |-> <<"g", "(">>, post |-> <<")">>],
      [name |-> "arg2",  pre |-> <<"g", "(", "1", ",">>, post |-> <<")">>] }

InContext(cx, t) ==
    CASE cx.name \in {"start", "paren"} -> t
      [] cx.name \in BinaryOperator -> TBinaryOp(cx.name, TInteger(3), t)
      [] cx.name = "Neg" -> TUnaryOp("Neg", t)
      [] cx.name = "arg" -> TFunctionCall("g", <<t>>)
      [] cx.name = "arg2" -> TFunctionCall("g", <<TInteger(1), t>>)

\* -a^b in a context
NegPowText(cx, a, b) == cx.pre \o <<"-">> \o a.text \o <<"^">> \o b.text \o cx.post

NegPowTexts == { NegPowText(cx, a, b) : <<cx, a, b>> \in Contexts \X Operands \X Operands }

\* numbers, and expressions followed by a token that continues nothing
OtherTexts ==
    { <<"1", ".", "2", ".", "3">>, <<"1", "2", "3">>, <<"0", "0", "7">>,
      [i \in 1..20 |-> "9"],
      <<"1", ".", "2", "5">>, <<"0", ".", "5", "0">>, <<"a", "b", "_", "1">>,
      <<"1", "+", "2", "@">>, <<"(", "1", ")", ")">>, <<"f", "(", "1", ")", "2">>,
      <<"(", "1", "@", ")">>, <<"f", "(", "1", "@", ")">>, <<"1", "+", "2", " ", "x">>,
      <<"2", " ", "+", " ", "3", " ", "*", " ", "4">>,
      <<"(", "1", " ", "+", " ", "2", ")", " ", "*", " ", "3">>,
      <<"2", " ", "^", " ", "3">>, <<"f", " ", "(", "1", " ", ",", " ", "2", " ", ")">>,
      <<" ", "-", " ", "2", " ", "/", " ", "(", " ", "x", " ", ")", " ">>,
      <<"(", "1", " ", "2">>, <<"f", "(", "1", ",", " ", ")">>, <<"f", "(", "1", " ", "2", ")">>,
      <<"(", "1", "+", "(", "2", "*">>, <<"f", "(", "(", "1", ")", " ">> }

Sources ==
    ShortTexts \cup PrecedenceTexts \cup NegPowTexts \cup OtherTexts \cup AssociativityTexts

Tokenize ==
    /\ tokens = NoOutcome
    /\ tokens' = tokenize(src)
    /\ UNCHANGED <<src, parsed, mainOut, build, interpVars, arithVars, replVars>>

\* parse applied to the tokens as tokenize returned them
ParseTokens ==
    /\ tokens.kind = "Ok"
    /\ parsed = NoOutcome
    /\ parsed' = parse(tokens.val)
    /\ UNCHANGED <<src, tokens, mainOut, build, interpVars, arithVars, replVars>>

\* the path of main and of the interactive loop
FrontEnd ==
    /\ mainOut = NoOutcome
    /\ mainOut' = FrontEndOutcome(src)
    /\ UNCHANGED <<src, tokens, parsed, build, interpVars, arithVars, replVars>>

FrontInit ==
    /\ build = "release"
    /\ prog = NoTerm /\ env = <<>> /\ stack = <<>> /\ ctrl = NoOutcome
    /\ status = "idle" /\ result = NoOutcome
    /\ src \in Sources
    /\ tokens = NoOutcome /\ parsed = NoOutcome /\ mainOut = NoOutcome
    /\ aIn = NoInput /\ aOut = NoOutcome
    /\ history = <<>> /\ submitted = <<>>

FrontNext == Tokenize \/ ParseTokens \/ FrontEnd

FrontSpec == FrontInit /\ [][FrontNext]_vars

(***************************************************************************)
(* Environment (interpreter.rs): a chain of scopes, innermost first.  The  *)
(* head is the scope's own `current` map and `syntax_rules`; the tail is   *)
(* `parent`, an owned copy, so the root is the chain of length one.        *)
(***************************************************************************)
EmptyMap == [n \in {} |-> VUnit]

SyntaxRule(name, pattern, precedence, scope) ==
    [name |-> name, pattern |-> pattern, precedence |-> precedence, scope |-> scope]

\* Environment::bind
bind(e, name, value) ==
    [e EXCEPT ![1].current =
        [n \in DOMAIN e[1].current \cup {name} |->
            IF n = name THEN value ELSE e[1].current[n]]]

\* add_builtin that registers every name as the builtin PRINT
add_builtin_OtherBuiltin(e, name) == bind(e, name, VBuiltin("PRINT"))

\* Environment::add_builtin
add_builtin(e, name) == bind(e, name, VBuiltin(name))

\* Environment::add_syntax_rule
add_syntax_rule(e, rule) ==
    [e EXCEPT ![1].syntax_rules = Append(e[1].syntax_rules, rule)]

\* Environment::new
NewEnvironment ==
    add_syntax_rule(
        add_builtin(<<[current |-> EmptyMap, syntax_rules |-> <<>>]>>, "ID"),
        SyntaxRule("FUNCTION", "{name}({args})", 1, "Global"))

Some(v) == [some |-> TRUE, val |-> v]

None == [some |-> FALSE]

\* lookup that searches the outermost scope first
RECURSIVE lookup_OutermostFirst(_, _)
lookup_OutermostFirst(e, name) ==
    IF e = <<>> THEN None
    ELSE IF name \in DOMAIN e[Len(e)].current THEN Some(e[Len(e)].current[name])
    ELSE lookup_OutermostFirst(SubSeq(e, 1, Len(e) - 1), name)

\* Environment::lookup
RECURSIVE lookup(_, _)
lookup(e, name) ==
    IF e = <<>> THEN None
    ELSE IF name \in DOMAIN e[1].current THEN Some(e[1].current[name])
    ELSE lookup(Tail(e), name)

\* ChildEnvironment with the root scope as parent instead of the caller's
ChildEnvironment_RootParent(e) ==
    <<[current |-> EmptyMap, syntax_rules |-> e[1].syntax_rules], e[Len(e)]>>

\* the child environment of a call: no bindings, the caller's environment
\* as parent, a copy of its syntax rules
ChildEnvironment(e) ==
    <<[current |-> EmptyMap, syntax_rules |-> e[1].syntax_rules]>> \o e

(***************************************************************************)
(* Interpreter::interpret as a step machine.  ctrl is the invocation being *)
(* entered (mode "eval") or the Result being returned (mode "ret"); stack  *)
(* holds the invocations of interpret that wait for a nested one, the      *)
(* innermost last.                                                         *)
(***************************************************************************)
Eval(t) == [mode |-> "eval", term |-> t]

Ret(r) == [mode |-> "ret", res |-> r]

Idle == [mode |-> "idle"]

Top == stack[Len(stack)]

Pop == SubSeq(stack, 1, Len(stack) - 1)

ReplaceTop(f) == [stack EXCEPT ![Len(stack)] = f]

Evaluating(kind) == status = "running" /\ ctrl.mode = "eval" /\ ctrl.term.term = kind

Returning(frame) ==
    status = "running" /\ ctrl.mode = "ret" /\ stack # <<>> /\ Top.frame = frame

HasRoom == Len(stack) < StackLimit

\* a top-level call of interpret
Interpret(t) ==
    /\ status = "idle"
    /\ t.term = "SyntaxDefinition" => Len(env[1].syntax_rules) < MaxRules
    /\ ctrl' = Eval(t)
    /\ stack' = <<>>
    /\ status' = "running"
    /\ result' = NoOutcome
    /\ prog' = t
    /\ src' = <<>> /\ mainOut' = NoOutcome
    /\ UNCHANGED <<env, build, tokens, parsed, arithVars, replVars>>

\* main: a newly constructed interpreter runs one source text; a parse
\* error is printed and nothing is evaluated, a panic of tokenize ends the
\* process
RunFile(text) ==
    /\ status = "idle" /\ prog = NoTerm
    /\ src' = text
    /\ mainOut' = FrontEndOutcome(text)
    /\ IF mainOut'.kind = "Interpret"
       THEN prog' = mainOut'.ast /\ ctrl' = Eval(mainOut'.ast) /\ status' = "running"
       ELSE IF mainOut'.kind = "Panic"
       THEN status' = "panicked" /\ UNCHANGED <<prog, ctrl>>
       ELSE UNCHANGED <<prog, ctrl, status>>
    /\ stack' = <<>>
    /\ result' = NoOutcome
    /\ UNCHANGED <<env, build, tokens, parsed, arithVars, replVars>>

EvalIdentifier ==
    /\ Evaluating("Identifier")
    /\ LET v == lookup(env, ctrl.term.name)
       IN  ctrl' = Ret(IF v.some THEN Ok(v.val)
                       ELSE Err(ENamed("Undefined variable", ctrl.term.name)))
    /\ UNCHANGED <<env, stack, status, result, prog, build, frontVars, arithVars, replVars>>

EvalLiteral ==
    /\ Evaluating("Integer") \/ Evaluating("Float")
    /\ ctrl' = Ret(Ok(IF ctrl.term.term = "Integer" THEN VInteger(ctrl.term.n)
                      ELSE VFloat(ctrl.term.f)))
    /\ UNCHANGED <<env, stack, status, result, prog, build, frontVars, arithVars, replVars>>

EvalFunction ==
    /\ Evaluating("Function")
    /\ LET func == VFunction(ctrl.term.params, ctrl.term.body)
       IN  /\ env' = bind(env, ctrl.term.name, func)
           /\ ctrl' = Ret(Ok(func))
    /\ UNCHANGED <<stack, status, result, prog, build, frontVars, arithVars, replVars>>

Callee == lookup(env, ctrl.term.name)

\* EvalCallBuiltin whose arity test is `args.len() < 1`
EvalCallBuiltin_AtLeastOne ==
    /\ Evaluating("FunctionCall")
    /\ Callee.some /\ Callee.val.tag = "Builtin"
    /\ IF Callee.val.bname # "ID"
       THEN /\ ctrl' = Ret(Err(ENamed("Unknown builtin", Callee.val.bname)))
            /\ UNCHANGED stack
       ELSE IF Len(ctrl.term.args) < 1
       THEN /\ ctrl' = Ret(Err(EMsg("ID takes exactly one argument")))
            /\ UNCHANGED stack
       ELSE /\ HasRoom
            /\ stack' = Append(stack, [frame |-> "Builtin"])
            /\ ctrl' = Eval(ctrl.term.args[1])
    /\ UNCHANGED <<env, status, result, prog, build, frontVars, arithVars, replVars>>

\* FunctionCall of a name bound to a builtin: call_builtin
EvalCallBuiltin ==
    /\ Evaluating("FunctionCall")
    /\ Callee.some /\ Callee.val.tag = "Builtin"
    /\ IF Callee.val.bname # "ID"
       THEN /\ ctrl' = Ret(Err(ENamed("Unknown builtin", Callee.val.bname)))
            /\ UNCHANGED stack
       ELSE IF Len(ctrl.term.args) # 1
       THEN /\ ctrl' = Ret(Err(EMsg("ID takes exactly one argument")))
            /\ UNCHANGED stack
       ELSE /\ HasRoom
            /\ stack' = Append(stack, [frame |-> "Builtin"])
            /\ ctrl' = Eval(ctrl.term.args[1])
    /\ UNCHANGED <<env, status, result, prog, build, frontVars, arithVars, replVars>>

\* FunctionCall of a name bound to a user function, up to the first nested
\* invocation: an argument, or the body when there is no parameter
EvalCallFunction ==
    /\ Evaluating("FunctionCall")
    /\ Callee.some /\ Callee.val.tag = "Function"
    /\ LET params  == Callee.val.params
           body    == Callee.val.body
           args    == ctrl.term.args
           new_env == ChildEnvironment(env)
       IN  IF Len(params) # Len(args)
           THEN /\ ctrl' = Ret(Err(EArity(ctrl.term.name, Len(params), Len(args))))
                /\ UNCHANGED <<env, stack>>
           ELSE IF params = <<>>
           THEN /\ HasRoom
                /\ stack' = Append(stack, [frame |-> "Body", old_env |-> env])
                /\ env' = new_env
                /\ ctrl' = Eval(body)
           ELSE /\ HasRoom
                /\ stack' = Append(stack, [frame |-> "Args", params |-> params,
                                           args |-> Tail(args), new_env |-> new_env,
                                           body |-> body])
                /\ ctrl' = Eval(Head(args))
                /\ UNCHANGED env
    /\ UNCHANGED <<status, result, prog, build, frontVars, arithVars, replVars>>

\* FunctionCall of a name bound to another value, or not bound
EvalCallOther ==
    /\ Evaluating("FunctionCall")
    /\ ~(Callee.some /\ Callee.val.tag \in {"Builtin", "Function"})
    /\ ctrl' = Ret(Err(IF Callee.some THEN ENamed("is not a function", ctrl.term.name)
                       ELSE ENamed("Function not found", ctrl.term.name)))
    /\ UNCHANGED <<env, stack, status, result, prog, build, frontVars, arithVars, replVars>>

EvalBinaryOp ==
    /\ Evaluating("BinaryOp")
    /\ HasRoom
    /\ stack' = Append(stack, [frame |-> "Left", op |-> ctrl.term.op,
                               right |-> ctrl.term.right])
    /\ ctrl' = Eval(ctrl.term.left)
    /\ UNCHANGED <<env, status, result, prog, build, frontVars, arithVars, replVars>>

EvalUnaryOp ==
    /\ Evaluating("UnaryOp")
    /\ HasRoom
    /\ stack' = Append(stack, [frame |-> "Operand", op |-> ctrl.term.op])
    /\ ctrl' = Eval(ctrl.term.operand)
    /\ UNCHANGED <<env, status, result, prog, build, frontVars, arithVars, replVars>>

EvalSyntaxDefinition ==
    /\ Evaluating("SyntaxDefinition")
    /\ env' = add_syntax_rule(env, SyntaxRule(ctrl.term.name, ctrl.term.pattern,
                                              ctrl.term.precedence, ctrl.term.scope))
    /\ ctrl' = Ret(Ok(VUnit))
    /\ UNCHANGED <<stack, status, result, prog, build, frontVars, arithVars, replVars>>

\* the invocation being entered needs a nested one
Nests ==
    \/ ctrl.term.term \in {"BinaryOp", "UnaryOp"}
    \/ /\ ctrl.term.term = "FunctionCall"
       /\ Callee.some
       /\ \/ Callee.val.tag = "Function" /\ Len(Callee.val.params) = Len(ctrl.term.args)
          \/ Callee.val = VBuiltin("ID") /\ Len(ctrl.term.args) = 1

\* the host call stack is exhausted: the process is killed
StackOverflow ==
    /\ status = "running" /\ ctrl.mode = "eval"
    /\ Nests
    /\ ~HasRoom
    /\ status' = "stack_overflow"
    /\ UNCHANGED <<env, stack, ctrl, result, prog, build, frontVars, arithVars, replVars>>

\* ReturnLeft without the `?`: the right operand is evaluated after a failed
\* left one
ReturnLeft_NoShortCircuit ==
    /\ Returning("Left")
    /\ stack' = ReplaceTop([frame |-> "Right", op |-> Top.op,
                            left |-> IF ctrl.res.kind = "Err" THEN VUnit ELSE ctrl.res.val])
    /\ ctrl' = Eval(Top.right)
    /\ UNCHANGED <<env, status, result, prog, build, frontVars, arithVars, replVars>>

\* `let left_val = self.interpret(*left)?;`
ReturnLeft ==
    /\ Returning("Left")
    /\ IF ctrl.res.kind = "Err"
       THEN stack' = Pop /\ UNCHANGED ctrl
       ELSE /\ stack' = ReplaceTop([frame |-> "Right", op |-> Top.op, left |-> ctrl.res.val])
            /\ ctrl' = Eval(Top.right)
    /\ UNCHANGED <<env, status, result, prog, build, frontVars, arithVars, replVars>>

\* `let right_val = self.interpret(*right)?; self.apply_binary_op(..)`
ReturnRight ==
    /\ Returning("Right")
    /\ LET out == apply_binary_op(Top.op, Top.left, ctrl.res.val)
       IN  IF ctrl.res.kind = "Err"
           THEN stack' = Pop /\ UNCHANGED <<ctrl, status>>
           ELSE IF out.kind = "Panic"
           THEN status' = "panicked" /\ UNCHANGED <<ctrl, stack>>
           ELSE stack' = Pop /\ ctrl' = Ret(out) /\ UNCHANGED status
    /\ UNCHANGED <<env, result, prog, build, frontVars, arithVars, replVars>>

\* `let val = self.interpret(*operand)?; self.apply_unary_op(op, val)`
ReturnOperand ==
    /\ Returning("Operand")
    /\ LET out == apply_unary_op(Top.op, ctrl.res.val)
       IN  IF ctrl.res.kind = "Err"
           THEN stack' = Pop /\ UNCHANGED <<ctrl, status>>
           ELSE IF out.kind = "Panic"
           THEN status' = "panicked" /\ UNCHANGED <<ctrl, stack>>
           ELSE stack' = Pop /\ ctrl' = Ret(out) /\ UNCHANGED status
    /\ UNCHANGED <<env, result, prog, build, frontVars, arithVars, replVars>>

\* ReturnArg that never leaves the argument loop: the next argument is
\* evaluated again and again
ReturnArg_NoAdvance ==
    /\ Returning("Args")
    /\ IF ctrl.res.kind = "Err"
       THEN stack' = Pop /\ UNCHANGED <<ctrl, env>>
       ELSE LET bound == bind(Top.new_env, Head(Top.params), ctrl.res.val)
            IN  IF Top.args # <<>>
                THEN /\ stack' = ReplaceTop([Top EXCEPT !.new_env = bound])
                     /\ ctrl' = Eval(Head(Top.args))
                     /\ UNCHANGED env
                ELSE /\ stack' = ReplaceTop([frame |-> "Body", old_env |-> env])
                     /\ env' = bound
                     /\ ctrl' = Eval(Top.body)
    /\ UNCHANGED <<status, result, prog, build, frontVars, arithVars, replVars>>

\* `let value = self.interpret(arg)?; new_env.bind(param, value);` and, after
\* the last argument, the swap of the environments and the body
ReturnArg ==
    /\ Returning("Args")
    /\ IF ctrl.res.kind = "Err"
       THEN stack' = Pop /\ UNCHANGED <<ctrl, env>>
       ELSE LET bound == bind(Top.new_env, Head(Top.params), ctrl.res.val)
            IN  IF Top.args # <<>>
                THEN /\ stack' = ReplaceTop([Top EXCEPT !.params = Tail(Top.params),
                                                        !.args = Tail(Top.args),
                                                        !.new_env = bound])
                     /\ ctrl' = Eval(Head(Top.args))
                     /\ UNCHANGED env
                ELSE /\ stack' = ReplaceTop([frame |-> "Body", old_env |-> env])
                     /\ env' = bound
                     /\ ctrl' = Eval(Top.body)
    /\ UNCHANGED <<status, result, prog, build, frontVars, arithVars, replVars>>

\* ReturnBody with `self.interpret(body)?`: an error leaves before the restore
ReturnBody_KeepsEnvOnError ==
    /\ Returning("Body")
    /\ env' = IF ctrl.res.kind = "Err" THEN env ELSE Top.old_env
    /\ stack' = Pop
    /\ UNCHANGED <<ctrl, status, result, prog, build, frontVars, arithVars, replVars>>

\* `let result = self.interpret(body); self.env = old_env; result`
ReturnBody ==
    /\ Returning("Body")
    /\ env' = Top.old_env
    /\ stack' = Pop
    /\ UNCHANGED <<ctrl, status, result, prog, build, frontVars, arithVars, replVars>>

\* `self.interpret(args.into_iter().next().unwrap())` of call_builtin
ReturnBuiltin ==
    /\ Returning("Builtin")
    /\ stack' = Pop
    /\ UNCHANGED <<ctrl, env, status, result, prog, build, frontVars, arithVars, replVars>>

\* the top-level call returns to its caller
Finish ==
    /\ status = "running" /\ ctrl.mode = "ret" /\ stack = <<>>
    /\ result' = ctrl.res
    /\ ctrl' = Idle
    /\ status' = "idle"
    /\ UNCHANGED <<env, stack, prog, build, frontVars, arithVars, replVars>>

Step ==
    \/ EvalIdentifier \/ EvalLiteral \/ EvalFunction
    \/ EvalCallBuiltin \/ EvalCallFunction \/ EvalCallOther
    \/ EvalBinaryOp \/ EvalUnaryOp \/ EvalSyntaxDefinition
    \/ StackOverflow
    \/ ReturnLeft \/ ReturnRight \/ ReturnOperand
    \/ ReturnArg \/ ReturnBody \/ ReturnBuiltin
    \/ Finish

(***************************************************************************)
(* Spec: the terms handed to interpret.  Function definitions are Terms    *)
(* built by the caller of the library (the parser has no syntax for them). *)
(***************************************************************************)
Call(name, args) == TFunctionCall(name, args)

\* g() = y : the body refers to a name that is no parameter of g
DefG == TFunction("g", <<>>, TIdentifier("y"))

\* f(y) = g()
DefF == TFunction("f", <<"y">>, Call("g", <<>>))

\* k(x) = 12 / x
DefK == TFunction("k", <<"x">>, TBinaryOp("Div", TInteger(12), TIdentifier("x")))

\* h() = h()
DefH == TFunction("h", <<>>, Call("h", <<>>))

\* ap(b) = b(5)
DefAp == TFunction("ap", <<"b">>, Call("b", <<TInteger(5)>>))

\* m(x, y) = k(x) - k(y)
DefM == TFunction("m", <<"x", "y">>,
                  TBinaryOp("Minus", Call("k", <<TIdentifier("x")>>),
                                     Call("k", <<TIdentifier("y")>>)))

\* sh(ID, g) = ID + g : the parameters have the names of the builtin and of
\* a user function
DefSh == TFunction("sh", <<"ID", "g">>,
                   TBinaryOp("Plus", TIdentifier("ID"), TIdentifier("g")))

\* g() = 5 : a second definition of the name g
DefG5 == TFunction("g", <<>>, TInteger(5))

\* ID(x) = x + 1 : a definition of the name of the builtin
DefID == TFunction("ID", <<"x">>, TBinaryOp("Plus", TIdentifier("x"), TInteger(1)))

Definitions == {DefG, DefF, DefK, DefH, DefAp, DefM, DefSh, DefG5, DefID}

ParamNames == {"x", "y", "b"}

Calls ==
    { Call("f", <<TInteger(7)>>), Call("g", <<>>),
      Call("f", <<>>), Call("f", <<TInteger(1), TInteger(2)>>), Call("g", <<TInteger(1)>>),
      Call("k", <<TInteger(0)>>), Call("k", <<TInteger(5)>>),
      Call("k", <<Call("k", <<TInteger(4)>>)>>),
      Call("f", <<Call("k", <<TInteger(0)>>)>>),
      Call("m", <<TInteger(3), TInteger(0)>>), Call("m", <<TInteger(0), TInteger(3)>>),
      Call("m", <<TInteger(2), TInteger(4)>>), Call("m", <<TInteger(1)>>),
      Call("h", <<>>),
      Call("ap", <<TIdentifier("ID")>>), Call("ap", <<TInteger(1)>>),
      Call("ID", <<TInteger(5)>>), Call("ID", <<>>),
      Call("ID", <<TInteger(1), TInteger(2)>>),
      Call("ID", <<Call("ID", <<TIdentifier("y")>>)>>),
      Call("sh", <<TInteger(1), TInteger(2)>>),
      Call("ID", <<Call("ID", <<TInteger(7)>>)>>),
      Call("ID", <<Call("k", <<TInteger(0)>>)>>),
      Call("m", <<DefG, TIdentifier("y")>>),
      Call("f", <<DefG>>), Call("f", <<DefG5>>) }

Expressions ==
    { TIdentifier("y"), TIdentifier("f"), TFloat(FNorm(5, 2)),
      TBinaryOp("Plus", TInteger(MaxInt), TInteger(1)),
      TBinaryOp("Plus", TInteger(1), TFloat(FNorm(5, 2))),
      TBinaryOp("Times", TIdentifier("f"), TInteger(2)),
      TBinaryOp("Plus", TIdentifier("y"), Call("h", <<>>)),
      TUnaryOp("Neg", TInteger(MinInt)),
      TUnaryOp("Neg", TBinaryOp("Pow", TInteger(2), TInteger(2))),
      TUnaryOp("Neg", TIdentifier("ID")),
      TSyntaxDefinition("INFIX", "{a} + {b}", 2, "Local"),
      TBinaryOp("Plus", TIdentifier("y"), DefG),
      TBinaryOp("Times", TIdentifier("f"), TIdentifier("y")),
      TBinaryOp("Minus", DefG, Call("g", <<>>)) }

Programs == Definitions \cup Calls \cup Expressions

\* integer literals as operands
NumOperands ==
    { [text |-> <<DigitChars[n + 1]>>, ast |-> TInteger(n)] : n \in {0, 1, 2, 3, 5} }

\* a1 ^ a2 ^ ... ^ an
RECURSIVE PowChainText(_)
PowChainText(ops) ==
    IF Len(ops) = 1 THEN ops[1].text
    ELSE ops[1].text \o <<"^">> \o PowChainText(Tail(ops))

\* chains of primaries and longer chains of literals
PowChains ==
    UNION {[1..n -> Operands \cup NumOperands] : n \in 2..3}
        \cup [1..4 -> {o \in NumOperands : o.ast.n \in 1..3}]

\* the source texts given to main
Files == {PowChainText(ops) : ops \in PowChains}

Init ==
    /\ build \in {"debug", "release"}
    /\ prog = NoTerm
    /\ env = NewEnvironment
    /\ stack = <<>>
    /\ ctrl = Idle
    /\ status = "idle"
    /\ result = NoOutcome
    /\ src = <<>> /\ tokens = NoOutcome /\ parsed = NoOutcome /\ mainOut = NoOutcome
    /\ aIn = NoInput /\ aOut = NoOutcome
    /\ history = <<>> /\ submitted = <<>>

Next == (\E t \in Programs : Interpret(t)) \/ (\E text \in Files : RunFile(text)) \/ Step

Spec == Init /\ [][Next]_vars

\* an invocation that was entered runs on: the machine takes its next step
FairSpec == Spec /\ WF_vars(Step)

(***************************************************************************)
(* ReplSpec: the interactive loop (repl.rs).  read_line edits the line and *)
(* moves through the history without changing it, and returns with some    *)
(* line or with Exit; the loop stores the line, evaluates it with the one  *)
(* interpreter of the session and prints the outcome.                      *)
(***************************************************************************)
\* `current_line.trim().is_empty()`
TrimIsEmpty(line) == \A i \in 1..Len(line) : line[i] \in WhitespaceChars

\* the lines read_line returns
Lines == { <<>>, <<" ">>, <<"1">>, <<" ", "1">>, <<"x">> }

\* SubmitLine that evicts only when the history is over its capacity
SubmitLine_EvictLate(line) ==
    /\ status = "idle"
    /\ Len(submitted) < MaxSubmitted
    /\ submitted' = Append(submitted, line)
    /\ history' =
          IF TrimIsEmpty(line) THEN history
          ELSE Append(IF Len(history) > HISTORY_SIZE THEN Tail(history) ELSE history, line)
    /\ src' = line
    /\ mainOut' = FrontEndOutcome(line)
    /\ IF mainOut'.kind = "Interpret"
       THEN prog' = mainOut'.ast /\ ctrl' = Eval(mainOut'.ast) /\ status' = "running"
       ELSE IF mainOut'.kind = "Panic"
       THEN status' = "panicked" /\ UNCHANGED <<prog, ctrl>>
       ELSE UNCHANGED <<prog, ctrl, status>>
    /\ stack' = <<>>
    /\ result' = NoOutcome
    /\ UNCHANGED <<env, build, tokens, parsed, arithVars>>

\* LineReadAction::Line : the line is stored when it is not blank, the
\* oldest entry of a full history leaving first, then tokenized, parsed and
\* handed to the interpreter
SubmitLine(line) ==
    /\ status = "idle"
    /\ Len(submitted) < MaxSubmitted
    /\ submitted' = Append(submitted, line)
    /\ history' =
          IF TrimIsEmpty(line) THEN history
          ELSE Append(IF Len(history) >= HISTORY_SIZE THEN Tail(history) ELSE history, line)
    /\ src' = line
    /\ mainOut' = FrontEndOutcome(line)
    /\ IF mainOut'.kind = "Interpret"
       THEN prog' = mainOut'.ast /\ ctrl' = Eval(mainOut'.ast) /\ status' = "running"
       ELSE IF mainOut'.kind = "Panic"
       THEN status' = "panicked" /\ UNCHANGED <<prog, ctrl>>
       ELSE UNCHANGED <<prog, ctrl, status>>
    /\ stack' = <<>>
    /\ result' = NoOutcome
    /\ UNCHANGED <<env, build, tokens, parsed, arithVars>>

\* LineReadAction::Exit
Exit ==
    /\ status = "idle"
    /\ status' = "exited"
    /\ UNCHANGED <<prog, env, stack, ctrl, result, build, frontVars, arithVars, replVars>>

ReplInit == Init

\* the steps of interpret on the terms of the lines
ReplNext ==
    \/ \E line \in Lines : SubmitLine(line)
    \/ Exit
    \/ EvalIdentifier \/ EvalLiteral \/ Finish

ReplSpec == ReplInit /\ [][ReplNext]_vars

(***************************************************************************)
(* Properties.                                                             *)
(***************************************************************************)
FunctionOf(def) == VFunction(def.params, def.body)

\* the root scope binds name to the function of the definition def
Bound(name, def) ==
    LET root == env[Len(env)].current
    IN  name \in DOMAIN root /\ root[name] = FunctionOf(def)

\* C1: the body of a user-function call is entered with the caller's
\* environment saved, the saved environment is kept as it is while the body
\* runs, and when the body returns, with a value or with an error, the
\* active environment is the saved one again and the Result is passed on;
\* whenever a top-level call of interpret has returned, the active
\* environment is the root scope (no parent) and binds no parameter name.
C1_EnvironmentRestored ==
    [][ /\ Returning("Body") => (env' = Top.old_env /\ ctrl' = ctrl)
        /\ \A i \in 1..Len(stack') :
              (stack'[i].frame = "Body" /\ (i > Len(stack) \/ stack[i].frame # "Body"))
                  => stack'[i].old_env = env
        /\ \A i \in 1..Len(stack) :
              (stack[i].frame = "Body" /\ i <= Len(stack')) => stack'[i] = stack[i]
        /\ status' = "idle" =>
              (Len(env') = 1 /\ DOMAIN env'[1].current \cap ParamNames = {})
      ]_vars

\* a call whose body failed inside a nested call has returned
C1_Witness ==
    /\ status = "idle"
    /\ prog = Call("m", <<TInteger(3), TInteger(0)>>)
    /\ result = Err(EMsg("Division by zero"))
    /\ Len(env) = 1

IsNumberRun(text) == text # <<>> /\ \A i \in 1..Len(text) : text[i] \in AsciiDigits \cup {"."}

\* C2: tokenize returns a token sequence for every text, and a text that is
\* one run of digits and dots is lexed as a single token, a Float when the
\* run has a dot and an Integer when it has none.
C2_TokenizeTotal ==
    tokens # NoOutcome =>
        /\ tokens.kind = "Ok"
        /\ IsNumberRun(src) =>
              /\ Len(tokens.val) = 1
              /\ tokens.val[1].tok =
                    IF \E i \in 1..Len(src) : src[i] = "." THEN "Float" ELSE "Integer"

NegPow(a, b) == TUnaryOp("Neg", TBinaryOp("Pow", a.ast, b.ast))

\* C3: in every place where an operand may start, -a^b parses as the
\* negation of a^b.
C3_NegationOfPower ==
    parsed # NoOutcome =>
        \A cx \in Contexts, a \in Operands, b \in Operands :
            src = NegPowText(cx, a, b) =>
                parsed = POk(<<>>, InContext(cx, NegPow(a, b)))

\* C4: the front ends evaluate an AST only when parse consumed every token;
\* a text with an Unknown token is never evaluated.
C4_RejectsLeftoverTokens ==
    mainOut.kind = "Interpret" =>
        /\ mainOut.dropped = <<>>
        /\ \A i \in 1..Len(tokenize(src).val) : tokenize(src).val[i].tok # "Unknown"

\* C5: an integer division returns the quotient truncated toward zero, or
\* the error 'Division by zero' for a zero divisor, and never aborts.
C5_DivisionTruncates ==
    (aIn.form = "Binary" /\ aIn.op = "Div" /\ aOut # NoOutcome) =>
        IF aIn.r = 0 THEN aOut = Err(EMsg("Division by zero"))
        ELSE /\ aOut.kind = "Ok"
             /\ aOut.val.tag = "Integer"
             /\ LET q == aOut.val.n
                    m == aIn.l - q * aIn.r
                IN  /\ Abs(m) < Abs(aIn.r)
                    /\ m = 0 \/ ((m < 0) = (aIn.l < 0))

\* C6: +, -, *, ^ with an exponent in 0..20 and unary negation of integers
\* return a Value or an error, also when the result does not fit.
C6_NoAbort ==
    ( /\ aOut # NoOutcome
      /\ aIn.form \in {"Binary", "Unary"}
      /\ \/ aIn.form = "Unary"
         \/ aIn.op \in {"Plus", "Minus", "Times"}
         \/ aIn.op = "Pow" /\ aIn.r \in 0..PowIntLimit )
        => aOut.kind \in {"Ok", "Err"}

C8_CallerScope ==
    /\ (status = "idle" /\ result # NoOutcome /\ Bound("g", DefG)) =>
          /\ prog = Call("g", <<>>) => result = Err(ENamed("Undefined variable", "y"))
          /\ (Bound("f", DefF) /\ prog = Call("f", <<TInteger(7)>>)) =>
                result = Ok(VInteger(7))
    /\ (status = "running" /\ prog = Call("f", <<TInteger(7)>>)
            /\ ctrl = Eval(TIdentifier("y"))) =>
          (Len(env) = 3 /\ lookup(env, "y") = Some(VInteger(7)))

\* f(7) has returned 7 through g
C8_Witness ==
    /\ status = "idle"
    /\ prog = Call("f", <<TInteger(7)>>)
    /\ Bound("g", DefG) /\ Bound("f", DefF)
    /\ result = Ok(VInteger(7))

\* C9: a call of a user function with a number of arguments other than its
\* number of parameters returns the 'Arity mismatch' error with the name,
\* the number of parameters and the number of arguments, and changes
\* neither the environment nor the pending invocations.
C9_ArityMismatch ==
    [][ ( /\ Evaluating("FunctionCall")
          /\ Callee.some /\ Callee.val.tag = "Function"
          /\ Len(Callee.val.params) # Len(ctrl.term.args) )
        => /\ ctrl' = Ret(Err([msg |-> "Arity mismatch", name |-> ctrl.term.name,
                               expected |-> Len(Callee.val.params),
                               got |-> Len(ctrl.term.args)]))
           /\ env' = env
           /\ stack' = stack
      ]_vars

\* g, which has no parameter, was called with one argument
C9_Witness ==
    /\ status = "idle"
    /\ prog = Call("g", <<TInteger(1)>>)
    /\ result = Err([msg |-> "Arity mismatch", name |-> "g", expected |-> 0, got |-> 1])
    /\ env = bind(NewEnvironment, "g", FunctionOf(DefG))

\* C10: a + b * c has the additive node at the root and the multiplicative
\* node (b, c) as its right child, a * b + c has the multiplicative node
\* (a, b) as its left child, and (a + b) * c has the multiplicative node at
\* the root and the additive node (a, b) as its left child; likewise with -
\* and /.
C10_Precedence ==
    parsed # NoOutcome =>
        \A a \in Operands, b \in Operands, c \in Operands, ca \in AddChars, cm \in MulChars :
            LET add == OpOfChar(ca)
                mul == OpOfChar(cm)
            IN  /\ src = Chain3(a, ca, b, cm, c) =>
                      parsed = POk(<<>>, TBinaryOp(add, a.ast, TBinaryOp(mul, b.ast, c.ast)))
                /\ src = Chain3(a, cm, b, ca, c) =>
                      parsed = POk(<<>>, TBinaryOp(add, TBinaryOp(mul, a.ast, b.ast), c.ast))
                /\ src = Paren3(a, ca, b, cm, c) =>
                      parsed = POk(<<>>, TBinaryOp(mul, TBinaryOp(add, a.ast, b.ast), c.ast))

\* x - f(1) / (1+2) was parsed
C10_Witness ==
    /\ src = <<"x", "-", "f", "(", "1", ")", "/", "(", "1", "+", "2", ")">>
    /\ parsed.kind = "Ok"
    /\ parsed.term.op = "Minus"
    /\ parsed.term.right.op = "Div"

\* the AST Pow(a1, Pow(a2, ... Pow(a(n-1), an)))
RECURSIVE PowChainAst(_)
PowChainAst(ops) ==
    IF Len(ops) = 1 THEN ops[1].ast
    ELSE TBinaryOp("Pow", ops[1].ast, PowChainAst(Tail(ops)))

\* the power of a natural number, or -1 when the interpreter does not
\* compute it as an integer that fits: no exponent given, an exponent
\* above PowIntLimit, or a power above MaxInt
NatPow(a, e) ==
    IF e < 0 \/ e > PowIntLimit THEN -1
    ELSE IF e = 0 THEN 1
    ELSE IF a <= 1 THEN a
    ELSE IF e >= IntBits THEN -1
    ELSE IF a ^ e > MaxInt THEN -1
    ELSE a ^ e

\* a1 ^ (a2 ^ (... ^ an)) for a chain of literals, or -1
RECURSIVE RightPow(_)
RightPow(ops) ==
    IF Len(ops) = 1 THEN ops[1].ast.n
    ELSE NatPow(ops[1].ast.n, RightPow(Tail(ops)))

IsLiteralChain(ops) == \A i \in 1..Len(ops) : ops[i] \in NumOperands

\* C11: a chain a1 ^ a2 ^ ... ^ an of primaries parses as
\* Pow(a1, Pow(a2, ... Pow(a(n-1), an))) with no token left, and a chain of
\* integer literals evaluates to the Integer a1 ^ (a2 ^ (... ^ an)) when the
\* exponents are at most PowIntLimit and the powers fit the integer width.
C11_PowRightAssociative ==
    (src # <<>> /\ mainOut # NoOutcome) =>
        \A ops \in PowChains :
            src = PowChainText(ops) =>
                /\ mainOut = [kind |-> "Interpret", ast |-> PowChainAst(ops),
                              dropped |-> <<>>]
                /\ ( /\ status = "idle" /\ result # NoOutcome
                     /\ prog = mainOut.ast
                     /\ IsLiteralChain(ops) /\ RightPow(ops) >= 0 )
                      => result = Ok(VInteger(RightPow(ops)))

\* 3^1^3 was parsed as Pow(3, Pow(1, 3)) and evaluated to 3, not to 27
C11_Witness ==
    /\ src = <<"3", "^", "1", "^", "3">>
    /\ mainOut.kind = "Interpret"
    /\ mainOut.ast = TBinaryOp("Pow", TInteger(3), TBinaryOp("Pow", TInteger(1), TInteger(3)))
    /\ status = "idle"
    /\ result = Ok(VInteger(3))

\* C12: evaluating Identifier(name) returns the value that the innermost
\* scope binding name gives it, and the error 'Undefined variable' with the
\* name exactly when no scope of the chain binds it, and changes nothing
\* else; with sh(ID, g) = ID + g, the call sh(1, 2) returns 3, the
\* parameters hiding the builtin ID and the user function g; when the body
\* of a call returns, ID and g resolve as they do for the caller again, and
\* after a top-level call has returned ID is the builtin or the function a
\* definition put in its place, never a parameter's value.
C12_InnermostBinding ==
    [][ /\ Evaluating("Identifier") =>
              LET name == ctrl.term.name
                  hits == {i \in 1..Len(env) : name \in DOMAIN env[i].current}
                  first == CHOOSE i \in hits : \A j \in hits : i <= j
              IN  /\ ctrl' = Ret(IF hits = {}
                                 THEN Err([msg |-> "Undefined variable", name |-> name])
                                 ELSE Ok(env[first].current[name]))
                  /\ env' = env /\ stack' = stack
        /\ ( /\ status' = "idle" /\ result' # NoOutcome
             /\ prog' = Call("sh", <<TInteger(1), TInteger(2)>>)
             /\ Bound("sh", DefSh) ) => result' = Ok(VInteger(3))
        /\ Returning("Body") =>
              \A name \in {"ID", "g"} : lookup(env', name) = lookup(Top.old_env, name)
        /\ status' = "idle" =>
              env'[1].current["ID"] \in {VBuiltin("ID"), FunctionOf(DefID)}
      ]_vars

\* sh(1, 2) has returned 3 while g is a user function of the root scope
C12_Witness ==
    /\ status = "idle"
    /\ prog = Call("sh", <<TInteger(1), TInteger(2)>>)
    /\ Bound("g", DefG) /\ Bound("sh", DefSh)
    /\ result = Ok(VInteger(3))
    /\ lookup(env, "ID") = Some(VBuiltin("ID"))

\* the operands of an input of apply_binary_op, as Values
LeftOf(in) == IF in.form = "Binary" THEN VInteger(in.l) ELSE in.left

RightOf(in) == IF in.form = "Binary" THEN VInteger(in.r) ELSE in.right

\* the f64 of a numeric Value
AsFloat(v) == IF v.tag = "Integer" THEN [cls |-> "fin", n |-> v.n, d |-> 1] ELSE v.f

\* C13: a value returned for two numeric operands is an Integer for two
\* Integers, except for ^ with an exponent below 0 or above 20, which gives
\* a Float, and a Float as soon as one operand is a Float, the value being
\* that of the operation on the two operands as floats (1 + 2.5 is 3.5);
\* an error is returned exactly for / with a zero divisor, of either type,
\* and it is 'Division by zero'.
C13_CoercionTable ==
    (aIn.form \in {"Binary", "Values"} /\ aOut # NoOutcome) =>
        LET l == LeftOf(aIn)
            r == RightOf(aIn)
            anyFloat == l.tag = "Float" \/ r.tag = "Float"
            zeroDivisor ==
                IF r.tag = "Integer" THEN r.n = 0 ELSE (r.f.cls = "fin" /\ r.f.n = 0)
        IN  /\ aOut.kind = "Err" <=> (aIn.op = "Div" /\ zeroDivisor)
            /\ aOut.kind = "Err" => aOut = Err([msg |-> "Division by zero"])
            /\ aOut.kind = "Ok" =>
                  aOut.val.tag =
                      IF anyFloat THEN "Float"
                      ELSE IF aIn.op = "Pow" /\ (r.n < 0 \/ r.n > 20) THEN "Float"
                      ELSE "Integer"
            /\ (anyFloat /\ aOut.kind = "Ok") =>
                  aOut = FloatBinaryOp(aIn.op, AsFloat(l), AsFloat(r))
            /\ (aIn.op = "Plus" /\ l = VInteger(1) /\ r = VFloat(FNorm(5, 2))) =>
                  aOut = Ok(VFloat(FNorm(7, 2)))

\* 1 + 2.5 has given the Float 3.5
C13_Witness ==
    /\ aIn = ValueInput("Plus", VInteger(1), VFloat(FNorm(5, 2)))
    /\ aOut = Ok(VFloat(FNorm(7, 2)))

\* the call being entered is a call of ID where ID is bound to the builtin
CallsBuiltinID ==
    /\ Evaluating("FunctionCall")
    /\ ctrl.term.name = "ID"
    /\ lookup(env, "ID") = Some(VBuiltin("ID"))

\* C14: where ID is bound to the builtin, a call of ID with a number of
\* arguments other than one returns the error 'ID takes exactly one
\* argument' and evaluates nothing; a call with one argument evaluates the
\* argument and passes on its Result, value or error, as it is; ID(5)
\* returns 5, ID(ID(7)) returns 7 and ID(ID(y)) with no y bound returns the
\* 'Undefined variable' error of y.
C14_BuiltinIdentity ==
    [][ /\ (CallsBuiltinID /\ Len(ctrl.term.args) # 1) =>
              /\ ctrl' = Ret(Err([msg |-> "ID takes exactly one argument"]))
              /\ env' = env /\ stack' = stack
        /\ (CallsBuiltinID /\ Len(ctrl.term.args) = 1 /\ status' = "running") =>
              /\ ctrl' = Eval(ctrl.term.args[1])
              /\ stack' = Append(stack, [frame |-> "Builtin"])
              /\ env' = env
        /\ Returning("Builtin") =>
              (ctrl' = ctrl /\ stack' = Pop /\ env' = env)
        /\ (status' = "idle" /\ result' # NoOutcome
                /\ lookup(env', "ID") = Some(VBuiltin("ID"))) =>
              /\ prog' = Call("ID", <<TInteger(5)>>) => result' = Ok(VInteger(5))
              /\ prog' = Call("ID", <<Call("ID", <<TInteger(7)>>)>>) =>
                    result' = Ok(VInteger(7))
              /\ prog' = Call("ID", <<Call("ID", <<TIdentifier("y")>>)>>) =>
                    result' = Err([msg |-> "Undefined variable", name |-> "y"])
              /\ prog' \in {Call("ID", <<>>), Call("ID", <<TInteger(1), TInteger(2)>>)} =>
                    result' = Err([msg |-> "ID takes exactly one argument"])
      ]_vars

\* ID(ID(7)) has returned 7
C14_Witness ==
    /\ status = "idle"
    /\ prog = Call("ID", <<Call("ID", <<TInteger(7)>>)>>)
    /\ result = Ok(VInteger(7))

\* the lines submitted so far that are not blank, in submission order
Stored == SelectSeq(submitted, LAMBDA line : ~TrimIsEmpty(line))

\* the last n elements of s
LastN(s, n) == IF Len(s) <= n THEN s ELSE SubSeq(s, Len(s) - n + 1, Len(s))

\* C15: the history holds at most HISTORY_SIZE entries, and they are the
\* most recently submitted lines that are not blank, in submission order;
\* no blank line is in it.
C15_History ==
    /\ Len(history) <= HISTORY_SIZE
    /\ history = LastN(Stored, HISTORY_SIZE)
    /\ \A i \in 1..Len(history) : ~TrimIsEmpty(history[i])

\* more lines than the history holds were stored, and a blank one was
\* submitted
C15_Witness ==
    /\ Len(Stored) > HISTORY_SIZE
    /\ Len(history) = HISTORY_SIZE
    /\ Len(Stored) < Len(submitted)
    /\ history[1] # Stored[1]

\* the left fold of a chain: ((first c1 o1) c2 o2) ...
RECURSIVE LeftFoldAst(_, _)
LeftFoldAst(acc, steps) ==
    IF steps = <<>> THEN acc
    ELSE LeftFoldAst(TBinaryOp(OpOfChar(steps[1].c), acc, steps[1].o.ast), Tail(steps))

\* C16: a chain of operands joined by additive operators, or by
\* multiplicative operators, parses as the left fold of the chain, with no
\* token left: a - b - c as Minus(Minus(a, b), c), a / b * c as
\* Times(Div(a, b), c), and likewise with four operands.
C16_LeftAssociative ==
    parsed # NoOutcome =>
        \A ch \in AssociativityChains :
            src = ChainText(ch[1][1], ch[2]) =>
                parsed = POk(<<>>, LeftFoldAst(ch[1][1].ast, ch[2]))

\* x - 2 + x - 2 was parsed as Minus(Plus(Minus(x, 2), x), 2)
C16_Witness ==
    /\ src = <<"x", "-", "2", "+", "x", "-", "2">>
    /\ parsed = POk(<<>>, TBinaryOp("Minus",
                              TBinaryOp("Plus",
                                  TBinaryOp("Minus", TIdentifier("x"), TInteger(2)),
                                  TIdentifier("x")),
                              TInteger(2)))

UndefinedY == Err([msg |-> "Undefined variable", name |-> "y"])

\* C17: BinaryOp starts with its left operand; a failed left operand ends
\* the BinaryOp with that error and the right operand is not started; after
\* a left value the right operand is evaluated, and its error ends the
\* BinaryOp unchanged; apply_binary_op is applied to two values only.  So
\* y + h() and y + (g() = y) with no y bound return 'Undefined variable: y'
\* without entering h and without defining g, f * y returns the error of y
\* and not 'Invalid types', and (g() = y) - g() defines g before it calls it.
C17_LeftBeforeRight ==
    [][ /\ (Evaluating("BinaryOp") /\ status' = "running") =>
              /\ ctrl' = Eval(ctrl.term.left)
              /\ stack' = Append(stack, [frame |-> "Left", op |-> ctrl.term.op,
                                         right |-> ctrl.term.right])
              /\ env' = env
        /\ (Returning("Left") /\ ctrl.res.kind = "Err") =>
              (ctrl' = ctrl /\ stack' = Pop /\ env' = env)
        /\ (Returning("Left") /\ ctrl.res.kind = "Ok") =>
              /\ ctrl' = Eval(Top.right)
              /\ stack' = ReplaceTop([frame |-> "Right", op |-> Top.op,
                                      left |-> ctrl.res.val])
              /\ env' = env
        /\ (Returning("Right") /\ ctrl.res.kind = "Err") =>
              (ctrl' = ctrl /\ stack' = Pop /\ env' = env)
        /\ (Returning("Right") /\ ctrl.res.kind = "Ok" /\ status' = "running") =>
              /\ ctrl' = Ret(apply_binary_op(Top.op, Top.left, ctrl.res.val))
              /\ stack' = Pop /\ env' = env
        /\ prog' = TBinaryOp("Plus", TIdentifier("y"), Call("h", <<>>)) =>
              /\ status' # "stack_overflow"
              /\ (status' = "idle" /\ result' # NoOutcome) => result' = UndefinedY
        /\ prog' = TBinaryOp("Plus", TIdentifier("y"), DefG) =>
              /\ env' = env
              /\ (status' = "idle" /\ result' # NoOutcome) => result' = UndefinedY
        /\ ( /\ prog' = TBinaryOp("Times", TIdentifier("f"), TIdentifier("y"))
             /\ status' = "idle" /\ result' # NoOutcome /\ Bound("f", DefF) ) =>
              result' = UndefinedY
        /\ ( /\ prog' = TBinaryOp("Minus", DefG, Call("g", <<>>))
             /\ status' = "idle" /\ result' # NoOutcome ) =>
              (result' = UndefinedY /\ Bound("g", DefG)')
      ]_vars

\* y + (g() = y) has failed on y and g is not defined
C17_Witness ==
    /\ status = "idle"
    /\ prog = TBinaryOp("Plus", TIdentifier("y"), DefG)
    /\ result = UndefinedY
    /\ "g" \notin DOMAIN env[1].current

\* C18: when an argument of a user-function call fails, the call returns
\* that error, no later argument and no body is started, and the active
\* environment is the one the call was entered with (the parent that the
\* call's scope was given).
C18_NoPartialResults ==
    [][ (Returning("Args") /\ ctrl.res.kind = "Err") =>
            /\ ctrl' = ctrl
            /\ stack' = Pop
            /\ env' = Tail(Top.new_env)
      ]_vars

\* C19: when the body of a user-function call starts, the parent of the
\* call's scope is the caller's environment of that moment (the one saved
\* to be restored), bindings made while the arguments were evaluated
\* included; so with f(y) = g(), the call f(g() = y) finds the g that its
\* argument defined and returns the value of y, the function g.
C19_BodySeesCallerEnvironment ==
    [][ /\ \A i \in 1..Len(stack') :
              (stack'[i].frame = "Body" /\ (i > Len(stack) \/ stack[i].frame # "Body"))
                  => Tail(env') = stack'[i].old_env
        /\ ( /\ status' = "idle" /\ result' # NoOutcome
             /\ prog' = Call("f", <<DefG>>)
             /\ Bound("f", DefF) ) => result' = Ok(FunctionOf(DefG))
      ]_vars

\* the outcome p of a parse with the Whitespace tokens in place is that of
\* the parse without them
SameOutcome(p, clean) ==
    IF clean.kind = "Ok"
    THEN /\ p.kind = "Ok"
         /\ p.term = clean.term
         /\ FilterWhitespace(p.rest) = clean.rest
    ELSE p.kind # "Ok"

\* C20: parsing the tokens of a text with the Whitespace tokens in place
\* gives the outcome of parsing them without the Whitespace tokens: the
\* same AST and the same tokens other than Whitespace left, or a failure.
C20_WhitespaceTolerant ==
    parsed # NoOutcome => SameOutcome(parsed, parse(FilterWhitespace(tokens.val)))

\* the scope of the top-level call of interpret: the active environment, or
\* the one saved by the outermost call whose body runs
TopLevelScope ==
    LET bodies == {i \in 1..Len(stack) : stack[i].frame = "Body"}
    IN  IF bodies = {} THEN env[1]
        ELSE stack[CHOOSE i \in bodies : \A j \in bodies : i <= j].old_env[1]

\* a call of ctrl.term.name is entered, no scope of a running call binds the
\* name, and the top-level scope binds it to a function
CallsTopLevelFunction ==
    /\ Evaluating("FunctionCall")
    /\ \A i \in 1..(Len(env) - 1) : ctrl.term.name \notin DOMAIN env[i].current
    /\ ctrl.term.name \in DOMAIN TopLevelScope.current
    /\ TopLevelScope.current[ctrl.term.name].tag = "Function"

\* C21: evaluating a Function definition binds the function value (its
\* parameters and body) under its name in the active scope, replacing any
\* binding of that name (the builtin ID included) and leaving every other
\* binding alone, and returns that same value; the bindings of the
\* top-level scope are kept from one top-level call of interpret to the
\* next; and every call of a name that the top-level scope binds to a
\* function calls the function of the most recent definition, the one the
\* top-level scope holds.
C21_DefinitionReplaces ==
    /\ [][ /\ Evaluating("Function") =>
                LET func == VFunction(ctrl.term.params, ctrl.term.body)
                IN  /\ env' = [env EXCEPT ![1].current =
                                  [n \in DOMAIN env[1].current \cup {ctrl.term.name} |->
                                      IF n = ctrl.term.name THEN func
                                      ELSE env[1].current[n]]]
                    /\ ctrl' = Ret(Ok(func))
           /\ (status = "idle" \/ status' = "idle") => env' = env
         ]_vars
    /\ [](CallsTopLevelFunction =>
            (Callee.some /\ Callee.val = TopLevelScope.current[ctrl.term.name]))

\* the tokens a primary expression may start with
PrimaryStart == {"Minus", "Integer", "Float", "Identifier", "LParen"}

\* the tokens after which an operand is expected
ExpectsOperand == {"Plus", "Minus", "Times", "Div", "Pow", "LParen", "Comma"}

Count(toks, t) == Cardinality({i \in 1..Len(toks) : toks[i].tok = t})

Unclosed(toks) == Count(toks, "LParen") > Count(toks, "RParen")

NoViolation == [pos |-> 0, code |-> "None"]

Violation(i, code) == [pos |-> i, code |-> code]

\* The grammar of the specification read from left to right.  i is the
\* token looked at; state is "Operand" where an operand has to start,
\* "Args" after the `(` of a call (an operand or `)`), "Operator" after an
\* operand; open holds the parentheses ("Paren") and argument lists
\* ("Call") not closed yet; adjacent says that no whitespace was passed
\* since the operand ended (`^` follows its left operand directly).  The
\* result is the place of the first token that fits nowhere, Len(toks) + 1
\* when the tokens end too early, or NoViolation: at the outermost level
\* the expression just ends before a token that continues nothing.
RECURSIVE Scan(_, _, _, _, _)
Scan(toks, i, state, open, adjacent) ==
    IF i > Len(toks)
    THEN IF state # "Operator" THEN Violation(i, "Eof")
         ELSE IF open # <<>> THEN Violation(i, "Char") ELSE NoViolation
    ELSE IF toks[i].tok = "Whitespace" THEN Scan(toks, i + 1, state, open, FALSE)
    ELSE IF state = "Args" /\ toks[i].tok = "RParen"
    THEN Scan(toks, i + 1, "Operator", SubSeq(open, 1, Len(open) - 1), TRUE)
    ELSE IF state # "Operator"
    THEN CASE toks[i].tok = "Minus" -> Scan(toks, i + 1, "Operand", open, TRUE)
           [] toks[i].tok \in {"Integer", "Float"} ->
                 Scan(toks, i + 1, "Operator", open, TRUE)
           [] toks[i].tok = "Identifier" ->
                 IF i < Len(toks) /\ toks[i + 1].tok = "LParen"
                 THEN Scan(toks, i + 2, "Args", Append(open, "Call"), TRUE)
                 ELSE Scan(toks, i + 1, "Operator", open, TRUE)
           [] toks[i].tok = "LParen" ->
                 Scan(toks, i + 1, "Operand", Append(open, "Paren"), TRUE)
           [] OTHER -> Violation(i, "Char")
    ELSE CASE toks[i].tok \in {"Plus", "Minus", "Times", "Div"} ->
                 Scan(toks, i + 1, "Operand", open, TRUE)
           [] toks[i].tok = "Pow" /\ adjacent -> Scan(toks, i + 1, "Operand", open, TRUE)
           [] toks[i].tok = "RParen" /\ open # <<>> ->
                 Scan(toks, i + 1, "Operator", SubSeq(open, 1, Len(open) - 1), TRUE)
           [] toks[i].tok = "Comma" /\ open # <<>> /\ open[Len(open)] = "Call" ->
                 Scan(toks, i + 1, "Operand", open, TRUE)
           [] OTHER -> IF open = <<>> THEN NoViolation ELSE Violation(i, "Char")

FirstViolation(toks) == Scan(toks, 1, "Operand", <<>>, TRUE)

\* the outcome p of parse(toks) fails exactly when the grammar is violated,
\* and its error carries the tokens from the violation on
ErrorAtViolation(toks, p) ==
    LET v      == FirstViolation(toks)
        before == SubSeq(toks, 1, v.pos - 1)
        words  == FilterWhitespace(before)
    IN  IF p.kind # "Err" THEN v = NoViolation
        ELSE /\ v # NoViolation
             /\ p.code = v.code
             /\ p.at = SubSeq(toks, v.pos, Len(toks))
             /\ p.code = "Eof" =>
                   /\ p.at = <<>>
                   /\ words = <<>> \/ words[Len(words)].tok \in ExpectsOperand
             /\ p.code = "Char" =>
                   IF p.at = <<>> THEN Unclosed(toks)
                   ELSE \/ Head(p.at).tok \notin PrimaryStart
                        \/ Head(p.at).tok \notin {"RParen", "Comma"} /\ Unclosed(before)

\* C22: parse fails exactly when its tokens violate the grammar, and the
\* error carries the suffix of the token sequence that begins at the token
\* where the grammar was violated: the empty suffix (Eof) when the input
\* ended where a primary was expected, the suffix from the offending token
\* when a token that cannot start a primary was found, and the suffix from
\* the token found in place of the `)` or `,` of an open parenthesis or
\* argument list (empty when the input ended there).  The same holds for
\* the error the front end reports on the tokens without whitespace.
C22_ErrorPosition ==
    /\ parsed # NoOutcome => ErrorAtViolation(tokens.val, parsed)
    /\ mainOut.kind \in {"Interpret", "ParseError"} =>
          ErrorAtViolation(FilterWhitespace(tokenize(src).val),
                           IF mainOut.kind = "Interpret" THEN POk(mainOut.dropped, mainOut.ast)
                           ELSE PErr(mainOut.at, mainOut.code))

\* parse failed at the token found in place of `)`, after skipped whitespace
C22_Witness ==
    /\ src = <<"(", "1", " ", "2">>
    /\ parsed = PErr(<<TokInteger(2)>>, "Char")

\* the values bound in the scopes of the environment e
ValuesOf(e) == UNION {{e[i].current[n] : n \in DOMAIN e[i].current} : i \in 1..Len(e)}

\* the values an invocation of interpret that waits for a nested one holds
FrameValues(f) ==
    CASE f.frame = "Right" -> {f.left}
      [] f.frame = "Args"  -> ValuesOf(f.new_env)
      [] f.frame = "Body"  -> ValuesOf(f.old_env)
      [] OTHER -> {}

Returned(r) == IF r.kind = "Ok" THEN {r.val} ELSE {}

\* every value the interpreter holds: in the scopes of the active and of the
\* saved environments, in the pending invocations, and returned
HeldValues ==
    ValuesOf(env)
        \cup UNION {FrameValues(stack[i]) : i \in 1..Len(stack)}
        \cup (IF ctrl.mode = "ret" THEN Returned(ctrl.res) ELSE {})
        \cup Returned(result)

IsUnknownBuiltin(r) == r.kind = "Err" /\ r.err.msg = "Unknown builtin"

\* a call of a name that lookup resolves to a Builtin value is entered
CallsBuiltin ==
    Evaluating("FunctionCall") /\ Callee.some /\ Callee.val.tag = "Builtin"

\* C23: at every moment of every sequence of top-level calls of interpret,
\* every Builtin value held in a scope of the active or of a saved
\* environment, held by a pending invocation or returned names the builtin
\* ID, under whatever name it is bound; a call of any name bound to it does
\* what a call of ID does (the arity error, or the evaluation of its one
\* argument); and no evaluation returns the error 'Unknown builtin'.
C23_OnlyBuiltinID ==
    /\ [](/\ \A v \in HeldValues : v.tag = "Builtin" => v = VBuiltin("ID")
          /\ ctrl.mode = "ret" => ~IsUnknownBuiltin(ctrl.res)
          /\ ~IsUnknownBuiltin(result))
    /\ [][ CallsBuiltin =>
              IF Len(ctrl.term.args) # 1
              THEN /\ ctrl' = Ret(Err(EMsg("ID takes exactly one argument")))
                   /\ stack' = stack /\ env' = env
              ELSE \/ status' = "stack_overflow"
                   \/ /\ ctrl' = Eval(ctrl.term.args[1])
                      /\ stack' = Append(stack, [frame |-> "Builtin"])
                      /\ env' = env
         ]_vars

\* ap(ID) has returned 5: the parameter b held the builtin and b(5) ran as ID
C23_Witness ==
    /\ status = "idle"
    /\ prog = Call("ap", <<TIdentifier("ID")>>)
    /\ result = Ok(VInteger(5))

====
